---- MODULE Spec2Model ----
(***************************************************************************)
(* The person CRUD service of src/main.py: the marshmallow schema          *)
(* PersonaSchema, the personas table behind the Persona model, and the     *)
(* five request handlers of the /persons blueprint, run by the threads of  *)
(* the server that app.run() starts.                                       *)
(*                                                                         *)
(* A table row is a function from column names to values; a column that is *)
(* NULL is left out of the row's domain.  A JSON payload is a pair: vals,  *)
(* the keys that carry a value, and nulls, the keys sent as JSON null.     *)
(* Dates are day ordinals.  A nombre, and a value of the query string, is  *)
(* a sequence of characters; the other strings are atoms.                  *)
(*                                                                         *)
(* A handler is cut into steps at its round trips to the datastore: what a *)
(* handler does between two of them touches nothing another thread sees    *)
(* and belongs to the step of the round trip that follows it, the arrival  *)
(* of the request included.  Each statement the datastore runs is atomic   *)
(* and sees the rows committed so far.                                     *)
(***************************************************************************)
EXTENDS Integers, Sequences, FiniteSets, TLC

\* ------------------------------------------------------------- bounds
\* Ids the datastore may hand out are 1..MaxId.
MaxId == 2
\* The day (ordinal) on which the process is started.
StartDay == 1
\* How many midnights pass while the process runs.
DaysRun == 1

MaxDay == StartDay + DaysRun
Ids == 1..MaxId
Workers == {1, 2}

VARIABLES
    store,      \* the committed rows of table personas
    today,      \* what date.today() returns now
    schemaMax,  \* the max= bound held by the Range validator of fecha_nacimiento
    thread,     \* each server thread's position in the handler it runs
    last,       \* the handler step taken last: its request and its answer, if any
    pcW,        \* two creates at once: each worker's position in create_person
    payloadW,   \* two creates at once: each worker's request body
    idW,        \* two creates at once: the id of the row each worker inserted
    statusW     \* two creates at once: each worker's response status (0: none yet)

vars == <<store, today, schemaMax, thread, last, pcW, payloadW, idW, statusW>>
seqVars == <<store, today, schemaMax, thread, last>>
concVars == <<pcW, payloadW, idW, statusW>>

\* ------------------------------------------------------------- Persona
RequiredColumns == {"nombre", "apellido", "categoria", "correo_electronico", "url"}
NullableColumns == {"edad", "fecha_nacimiento"}
Columns == {"id", "es_activo"} \cup RequiredColumns \cup NullableColumns

\* Persona(**data) as the row the INSERT writes: the datastore assigns id and
\* es_activo takes its column default.
Persona(data, id) ==
    [c \in DOMAIN data \cup {"id", "es_activo"} |->
        IF c = "id" THEN id ELSE IF c = "es_activo" THEN TRUE ELSE data[c]]

\* ------------------------------------------------------------- PersonaSchema
LoadFields == RequiredColumns \cup NullableColumns
Categorias == {"A", "B", "C", "D", "E", "F"}
EdadMin == 18
EdadMax == 50
NombreMin == 3

Upper == {"A", "L"}
Lower == {"a", "i", "l", "n"}

\* The error= texts of the validators (the accent of "mayuscula" is dropped)
\* and the default messages of marshmallow.
MsgRegexp == "El apellido debe iniciar con mayuscula y contener solo letras."
MsgLength == "El apellido debe tener al menos 3 caracteres."
MsgOneOf == "Must be one of: A, B, C, D, E, F."
MsgEdadMin == "Debe ser mayor de edad"
MsgEdadMax == "No debe ser una persona mayor de edad"
MsgFecha == "La fecha de nacimiento no puede ser futura"
MsgEmail == "Not a valid email address."
MsgUrl == "Not a valid URL."
MsgRequired == "Missing data for required field."
MsgNull == "Field may not be null."
MsgUnknown == "Unknown field."

\* [a-z]+ from position i: the position after the longest run of lower-case
\* letters starting at i, or 0 when there is none.
RECURSIVE LowerRun(_, _)
LowerRun(s, i) ==
    IF i <= Len(s) /\ s[i] \in Lower
    THEN LET j == LowerRun(s, i + 1) IN IF j = 0 THEN i + 1 ELSE j
    ELSE 0

\* [A-Z][a-z]+(?: [A-Z][a-z]+)* from position i up to the end of s.
RECURSIVE WordsFrom(_, _)
WordsFrom(s, i) ==
    /\ i <= Len(s)
    /\ s[i] \in Upper
    /\ LET j == LowerRun(s, i + 1) IN
        /\ j # 0
        /\ \/ j = Len(s) + 1
           \/ j <= Len(s) /\ s[j] = " " /\ WordsFrom(s, j + 1)

\* validate.Regexp(r'^[A-Z][a-z]+(?: [A-Z][a-z]+)*$'): re.match, where $ also
\* matches before one trailing newline.
NombreRegexp(s) ==
    \/ WordsFrom(s, 1)
    \/ Len(s) > 0 /\ s[Len(s)] = "\n" /\ WordsFrom(SubSeq(s, 1, Len(s) - 1), 1)

WellFormedEmails == {"ana@x.com", "luis@x.com"}
WellFormedUrls == {"http://x.com"}
IsEmail(v) == v \in WellFormedEmails
IsUrl(v) == v \in WellFormedUrls

\* The messages of one validator: <<msg>> when it fails, <<>> when it passes.
Check(ok, msg) == IF ok THEN <<>> ELSE <<msg>>

\* The validators of field f on value v, all of them run, messages in order.
FieldValidators(f, v, maxDate) ==
    CASE f = "nombre" ->
            Check(NombreRegexp(v), MsgRegexp) \o Check(Len(v) >= NombreMin, MsgLength)
      [] f = "categoria" -> Check(v \in Categorias, MsgOneOf)
      [] f = "edad" -> Check(v >= EdadMin, MsgEdadMin) \o Check(v <= EdadMax, MsgEdadMax)
      [] f = "correo_electronico" -> Check(IsEmail(v), MsgEmail)
      [] f = "url" -> Check(IsUrl(v), MsgUrl)
      [] f = "fecha_nacimiento" -> Check(v <= maxDate, MsgFecha)
      [] OTHER -> <<>>

Keys(payload) == DOMAIN payload.vals \cup payload.nulls

\* FieldErrors with a partial load that skips the validators of the fields it
\* is given.
FieldErrorsPartialSkips(f, payload, partial, maxDate) ==
    IF f \notin LoadFields THEN <<MsgUnknown>>
    ELSE IF f \in payload.nulls THEN <<MsgNull>>
    ELSE IF f \in DOMAIN payload.vals
    THEN (IF partial THEN <<>> ELSE FieldValidators(f, payload.vals[f], maxDate))
    ELSE IF f \in RequiredColumns /\ ~partial THEN <<MsgRequired>>
    ELSE <<>>

\* The messages marshmallow collects for field f of the payload.
FieldErrors(f, payload, partial, maxDate) ==
    IF f \notin LoadFields THEN <<MsgUnknown>>
    ELSE IF f \in payload.nulls THEN <<MsgNull>>
    ELSE IF f \in DOMAIN payload.vals THEN FieldValidators(f, payload.vals[f], maxDate)
    ELSE IF f \in RequiredColumns /\ ~partial THEN <<MsgRequired>>
    ELSE <<>>

\* ValidationError.messages of persona_schema.load(payload, partial=partial):
\* field name -> messages, over the fields in error (empty: the load succeeds
\* and returns payload.vals).
LoadErrors(payload, partial, maxDate) ==
    LET bad == {f \in Keys(payload) \cup LoadFields :
                    FieldErrors(f, payload, partial, maxDate) # <<>>}
    IN [f \in bad |-> FieldErrors(f, payload, partial, maxDate)]

\* persona_schema.dump(person): every schema field, es_activo is not one.
Dump(row) == [c \in DOMAIN row \ {"es_activo"} |-> row[c]]


\* ------------------------------------------------------------- datastore
\* The rows with primary key id: a set of none or one row.
Get(rows, id) == {r \in rows : r.id = id}

\* The ids the datastore may assign to a new row.
NewIds(rows) == Ids \ {r.id : r \in rows}

\* nullable=False on the required columns.
NotNullViolation(row) == ~(RequiredColumns \subseteq DOMAIN row)

\* UniqueViolation without unique=True on correo_electronico.
UniqueViolationPkOnly(others, row) == \E r \in others : r.id = row.id

\* primary_key=True on id and unique=True on correo_electronico, for row
\* against the other rows of the table.
UniqueViolation(others, row) ==
    \E r \in others :
        \/ r.id = row.id
        \/ r.correo_electronico = row.correo_electronico

\* IntegrityError of a table whose only constraints are the NOT NULL ones.
IntegrityErrorNotNullOnly(others, row) == NotNullViolation(row)

\* db.session.commit() raises IntegrityError: the table would break a
\* constraint with row written next to the other rows.
IntegrityError(others, row) ==
    NotNullViolation(row) \/ UniqueViolation(others, row)

Without(f, keys) == [k \in DOMAIN f \ keys |-> f[k]]

\* for key, value in data.items(): setattr(persona, key, value), as the
\* session records it: the keys whose value differs from the one loaded.
\* They are the columns of the SET clause of the UPDATE.
Changed(persona, data) ==
    {k \in DOMAIN data : k \notin DOMAIN persona \/ persona[k] # data[k]}

\* UPDATE personas SET <the changed columns> WHERE id = <the row's>.
SetAttrs(row, data) ==
    [c \in DOMAIN row \cup DOMAIN data |->
        IF c \in DOMAIN data THEN data[c] ELSE row[c]]

\* The integer a text of digits stands for: the datastore compares an
\* integer column with the text of the query string as with this number.
DigitValue ==
    ("0" :> 0) @@ ("1" :> 1) @@ ("2" :> 2) @@ ("3" :> 3) @@ ("4" :> 4)
    @@ ("5" :> 5) @@ ("6" :> 6) @@ ("7" :> 7) @@ ("8" :> 8) @@ ("9" :> 9)
RECURSIVE ToInt(_)
ToInt(text) ==
    IF text = <<>> THEN 0
    ELSE 10 * ToInt(SubSeq(text, 1, Len(text) - 1)) + DigitValue[text[Len(text)]]

IntegerColumns == {"id", "edad"}
TextColumns == {"apellido", "categoria", "correo_electronico", "url"}

\* filter_by(**args) raises InvalidRequestError: a key names no column.
InvalidRequestError(filter) == ~(DOMAIN filter \subseteq Columns)

\* .all() raises StatementError: the Boolean type refuses the str that the
\* query string gives for es_activo.
StatementError(filter) == "es_activo" \in DOMAIN filter

\* Column k of row r equals the text v of the query string.
ColumnEquals(r, k, v) ==
    /\ k \in DOMAIN r
    /\ CASE k \in IntegerColumns -> r[k] = ToInt(v)
         [] k \in TextColumns -> r[k] = v
         [] k = "nombre" -> r[k] = v

\* filter_by(**args).all(): the rows equal to the filter on each of its keys
\* (a NULL column equals no value).
FilterBy(rows, filter) ==
    {r \in rows : \A k \in DOMAIN filter : ColumnEquals(r, k, filter[k])}

\* ------------------------------------------------------------- steps and answers
NoPayload == [vals |-> <<>>, nulls |-> {}]

\* A thread that runs no handler.
IdleThread == [pc |-> "idle", id |-> 0, payload |-> NoPayload, changed |-> {}]

\* What a handler step shows: its name, the id of the path or of the row at
\* hand, the request body or query string it works on, and, when the step
\* answers the request (status # 0), the response: the HTTP status, the
\* field -> messages body of a validation error, the serialized rows of the
\* body, the "message" of the body; queried tells whether the step reached a
\* statement that uses the datastore, changed the columns an UPDATE of the
\* step has set.
NoStep ==
    [step |-> "none", id |-> 0, payload |-> NoPayload, filter |-> <<>>,
     status |-> 0, messages |-> <<>>, rows |-> {}, message |-> "", queried |-> FALSE,
     changed |-> {}]
Step(name, id, payload, filter) ==
    [NoStep EXCEPT !.step = name, !.id = id, !.payload = payload, !.filter = filter,
                   !.queried = TRUE]
Answer(s, status, rows, message) ==
    [s EXCEPT !.status = status, !.rows = rows, !.message = message]

\* except ValidationError as e: return e.messages, HTTPStatus.BAD_REQUEST
BadRequest(s, errors) ==
    [s EXCEPT !.status = 400, !.messages = errors, !.queried = FALSE]

\* page_not_found returning its body without a status: Flask answers 200.
page_not_found_ok(s) == Answer(s, 200, {}, "Persona no encontrada")

\* get_or_404 aborts and the blueprint's errorhandler(404) answers.
page_not_found(s) == Answer(s, 404, {}, "Persona no encontrada")

\* An exception no handler catches: Flask answers 500.
ServerError(s, exception) == Answer(s, 500, {}, exception)

\* ------------------------------------------------------------- inputs
Ana == <<"A", "n", "a", " ", "L", "i">>
Nombres == {Ana, <<"A", "l">>, <<"a", "l">>}
Emails == {"ana@x.com", "luis@x.com", "ana.x.com"}
Urls == {"http://x.com", "x"}
Dates == StartDay..(MaxDay + 1)

OneKey ==
    {("nombre" :> v) : v \in Nombres}
    \cup {("apellido" :> "Paz")}
    \cup {("categoria" :> v) : v \in {"A", "F", "a"}}
    \cup {("edad" :> v) : v \in {EdadMin - 1, EdadMax, EdadMax + 1}}
    \cup {("correo_electronico" :> v) : v \in Emails}
    \cup {("url" :> v) : v \in Urls}
    \cup {("fecha_nacimiento" :> v) : v \in Dates \ {StartDay}}
    \cup {("id" :> 1)}
TwoKeys ==
    {("categoria" :> "A") @@ ("edad" :> EdadMax),
     ("categoria" :> "A") @@ ("correo_electronico" :> "luis@x.com"),
     ("categoria" :> "F") @@ ("edad" :> EdadMax + 1),
     ("categoria" :> "a") @@ ("edad" :> EdadMin),
     ("categoria" :> "a") @@ ("fecha_nacimiento" :> StartDay)}

\* The bodies of PUT requests: sparse payloads.
UpdatePayloads ==
    {[vals |-> v, nulls |-> {}] : v \in {<<>>} \cup OneKey \cup TwoKeys}
    \cup {[vals |-> <<>>, nulls |-> {f}] : f \in {"apellido", "edad"}}

Base ==
    [nombre |-> Ana, apellido |-> "Paz", categoria |-> "A",
     correo_electronico |-> "ana@x.com", url |-> "http://x.com"]

\* The bodies of POST requests: the base payload overlaid with a sparse one,
\* and the base payload less one required key.
CreatePayloads ==
    {[vals |-> Without(p.vals @@ Base, p.nulls), nulls |-> p.nulls] : p \in UpdatePayloads}
    \cup {[vals |-> Without(Base, {f}), nulls |-> {}] : f \in RequiredColumns}

\* The query strings of GET /persons.
Filters ==
    {<<>>, ("edad" :> <<"5", "0">>), ("categoria" :> "A"),
     ("categoria" :> "A") @@ ("edad" :> <<"5", "0">>),
     ("correo_electronico" :> "ana@x.com"), ("nombre" :> Ana),
     ("es_activo" :> <<"T", "r", "u", "e">>), ("id" :> <<"1">>), ("foo" :> "x")}

\* The requests each thread is given.  Thread 1 is given every request;
\* thread 2, which runs beside it, the writes that race with them: a create
\* with either email, an update of categoria and correo_electronico, and
\* every delete.
Busy == 2
CreatePayloadsOf(t) ==
    IF t = Busy
    THEN {[vals |-> ("correo_electronico" :> e) @@ Base, nulls |-> {}] : e \in WellFormedEmails}
    ELSE CreatePayloads
UpdatePayloadsOf(t) ==
    IF t = Busy
    THEN {[vals |-> ("categoria" :> "F") @@ ("correo_electronico" :> "ana@x.com"),
           nulls |-> {}]}
    ELSE UpdatePayloads
FiltersOf(t) == IF t = Busy THEN {} ELSE Filters
LookupsOf(t) == IF t = Busy THEN {} ELSE Ids

\* ------------------------------------------------------------- state
Init ==
    /\ store = {}
    /\ today = StartDay
    /\ schemaMax = today
    /\ thread = [t \in Workers |-> IdleThread]
    /\ last = NoStep
    /\ pcW = [w \in Workers |-> "off"]
    /\ payloadW = [w \in Workers |-> NoPayload]
    /\ idW = [w \in Workers |-> 0]
    /\ statusW = [w \in Workers |-> 0]

\* Thread t goes on to step pc of its handler, for the row id.
GoesTo(t, pc, id, payload, changed) ==
    thread' = [thread EXCEPT ![t] =
                  [pc |-> pc, id |-> id, payload |-> payload, changed |-> changed]]
Ends(t) == thread' = [thread EXCEPT ![t] = IdleThread]

\* The record of a step is read before the next step is taken.
Flush ==
    /\ last # NoStep
    /\ last' = NoStep
    /\ UNCHANGED <<store, today, schemaMax, thread, concVars>>

\* Thread t is about to take the step at pc.
At(t, pc) == last = NoStep /\ thread[t].pc = pc

\* A midnight passes.
Tick ==
    /\ last = NoStep
    /\ today < MaxDay
    /\ today' = today + 1
    /\ last' = NoStep
    /\ UNCHANGED <<store, schemaMax, thread, concVars>>

\* ------------------------------------------------------------- handlers
\* POST /persons, lines 80-92: the load of the body, the INSERT, the commit.
create_person(t) ==
    /\ At(t, "idle")
    /\ NewIds(store) # {}
    /\ \E payload \in CreatePayloadsOf(t) :
        LET s == Step("create_person", 0, payload, <<>>)
            errors == LoadErrors(payload, FALSE, schemaMax)
            data == payload.vals
        IN IF errors # <<>>
           THEN /\ last' = BadRequest(s, errors)
                /\ UNCHANGED <<store, thread>>
           ELSE \E id \in NewIds(store) :
                   LET person == Persona(data, id)
                   IN IF IntegrityError(store, person)
                      THEN /\ last' = ServerError(s, "IntegrityError")
                           /\ UNCHANGED <<store, thread>>
                      ELSE /\ store' = store \cup {person}
                           /\ GoesTo(t, "create_person_dump", id, NoPayload, {})
                           /\ last' = [s EXCEPT !.id = id]
    /\ UNCHANGED <<today, schemaMax, concVars>>

\* The serialization of a record after the commit, which expired it: its
\* attributes are read again from the row of its id; ObjectDeletedError when
\* that row is gone.
DumpAfterCommit(s, status) ==
    LET found == Get(store, s.id)
    IN IF found = {}
       THEN ServerError(s, "ObjectDeletedError")
       ELSE Answer(s, status, {Dump(r) : r \in found}, "")

\* POST /persons, line 95.
create_person_dump(t) ==
    /\ At(t, "create_person_dump")
    /\ last' = DumpAfterCommit(Step("create_person_dump", thread[t].id, NoPayload, <<>>), 201)
    /\ Ends(t)
    /\ UNCHANGED <<store, today, schemaMax, concVars>>

\* GET /persons.
get_all_persons(t) ==
    /\ At(t, "idle")
    /\ \E filter \in FiltersOf(t) :
        LET s == Step("get_all_persons", 0, NoPayload, filter)
        IN last' = IF InvalidRequestError(filter)
                   THEN Answer(s, 200, {}, "InvalidRequestError")
                   ELSE IF StatementError(filter)
                   THEN ServerError(s, "StatementError")
                   ELSE Answer(s, 200, {Dump(r) : r \in FilterBy(store, filter)}, "")
    /\ UNCHANGED <<store, today, schemaMax, thread, concVars>>

\* GET /persons/<id>.
get_person_by_id(t) ==
    /\ At(t, "idle")
    /\ \E id \in LookupsOf(t) :
        LET s == Step("get_person_by_id", id, NoPayload, <<>>)
            found == Get(store, id)
        IN last' = IF found = {}
                   THEN page_not_found(s)
                   ELSE Answer(s, 200, {Dump(r) : r \in found}, "")
    /\ UNCHANGED <<store, today, schemaMax, thread, concVars>>

\* update_person with the lookup of the record before the load of the body.
update_person_lookup_first(t) ==
    /\ At(t, "idle")
    /\ \E id \in Ids, payload \in UpdatePayloadsOf(t) :
        LET s == Step("update_person", id, payload, <<>>)
            errors == LoadErrors(payload, TRUE, schemaMax)
            found == Get(store, id)
        IN IF found = {}
           THEN /\ last' = page_not_found(s)
                /\ UNCHANGED thread
           ELSE IF errors # <<>>
           THEN /\ last' = [BadRequest(s, errors) EXCEPT !.queried = TRUE]
                /\ UNCHANGED thread
           ELSE LET persona == CHOOSE r \in found : TRUE
                IN /\ GoesTo(t, "update_person_commit", id, payload,
                             Changed(persona, payload.vals))
                   /\ last' = s
    /\ UNCHANGED <<store, today, schemaMax, concVars>>

\* PUT /persons/<id>, lines 119-130: the load of the body, the lookup of the
\* record, the setattr loop.
update_person(t) ==
    /\ At(t, "idle")
    /\ \E id \in Ids, payload \in UpdatePayloadsOf(t) :
        LET s == Step("update_person", id, payload, <<>>)
            errors == LoadErrors(payload, TRUE, schemaMax)
            found == Get(store, id)
        IN IF errors # <<>>
           THEN /\ last' = BadRequest(s, errors)
                /\ UNCHANGED thread
           ELSE IF found = {}
           THEN /\ last' = page_not_found(s)
                /\ UNCHANGED thread
           ELSE LET persona == CHOOSE r \in found : TRUE
                IN /\ GoesTo(t, "update_person_commit", id, payload,
                             Changed(persona, payload.vals))
                   /\ last' = s
    /\ UNCHANGED <<store, today, schemaMax, concVars>>

\* PUT /persons/<id>, line 133: the commit flushes an UPDATE of the changed
\* columns, if there are any; StaleDataError when it matches no row.
update_person_commit(t) ==
    /\ At(t, "update_person_commit")
    /\ LET id == thread[t].id
           payload == thread[t].payload
           changed == thread[t].changed
           s == Step("update_person_commit", id, payload, <<>>)
           found == Get(store, id)
       IN IF changed = {}
          THEN /\ store' = store
               /\ GoesTo(t, "update_person_dump", id, NoPayload, {})
               /\ last' = s
          ELSE IF found = {}
          THEN /\ store' = store
               /\ Ends(t)
               /\ last' = ServerError(s, "StaleDataError")
          ELSE LET row == CHOOSE r \in found : TRUE
                   updated == SetAttrs(row, Without(payload.vals, DOMAIN payload.vals \ changed))
               IN IF IntegrityError(store \ {row}, updated)
                  THEN /\ store' = store
                       /\ Ends(t)
                       /\ last' = ServerError(s, "IntegrityError")
                  ELSE /\ store' = (store \ {row}) \cup {updated}
                       /\ GoesTo(t, "update_person_dump", id, NoPayload, {})
                       /\ last' = [s EXCEPT !.changed = changed]
    /\ UNCHANGED <<today, schemaMax, concVars>>

\* PUT /persons/<id>, line 134.
update_person_dump(t) ==
    /\ At(t, "update_person_dump")
    /\ last' = DumpAfterCommit(Step("update_person_dump", thread[t].id, NoPayload, <<>>), 200)
    /\ Ends(t)
    /\ UNCHANGED <<store, today, schemaMax, concVars>>

\* DELETE /persons/<id>, line 138: the lookup of the record.
delete_person(t) ==
    /\ At(t, "idle")
    /\ \E id \in Ids :
        LET s == Step("delete_person", id, NoPayload, <<>>)
        IN IF Get(store, id) = {}
           THEN /\ last' = page_not_found(s)
                /\ UNCHANGED thread
           ELSE /\ GoesTo(t, "delete_person_commit", id, NoPayload, {})
                /\ last' = s
    /\ UNCHANGED <<store, today, schemaMax, concVars>>

\* DELETE /persons/<id>, lines 139-141: the commit flushes a DELETE of the
\* row of that id; a DELETE that matches no row is a warning, not an error.
delete_person_commit(t) ==
    /\ At(t, "delete_person_commit")
    /\ store' = store \ Get(store, thread[t].id)
    /\ last' = Answer(Step("delete_person_commit", thread[t].id, NoPayload, <<>>), 204, {}, "")
    /\ Ends(t)
    /\ UNCHANGED <<today, schemaMax, concVars>>

Next ==
    \/ Tick
    \/ Flush
    \/ \E t \in Workers :
        \/ create_person(t)
        \/ create_person_dump(t)
        \/ get_all_persons(t)
        \/ get_person_by_id(t)
        \/ update_person(t)
        \/ update_person_commit(t)
        \/ update_person_dump(t)
        \/ delete_person(t)
        \/ delete_person_commit(t)

Spec == Init /\ [][Next]_vars

\* ------------------------------------------------------------- two creates at once
\* Two requests POST /persons are in flight together from the start, on an
\* empty table.  Each worker runs create_person in three steps: the load of
\* the request body, the INSERT and its commit, which the datastore runs
\* atomically under its constraints, and the serialization of the record.
InitConc ==
    /\ store = {}
    /\ today = StartDay
    /\ schemaMax = today
    /\ thread = [t \in Workers |-> IdleThread]
    /\ last = NoStep
    /\ pcW = [w \in Workers |-> "load"]
    /\ payloadW \in [Workers -> CreatePayloads]
    /\ idW = [w \in Workers |-> 0]
    /\ statusW = [w \in Workers |-> 0]

\* Lines 80-85.
create_person_load(w) ==
    /\ pcW[w] = "load"
    /\ IF LoadErrors(payloadW[w], FALSE, schemaMax) # <<>>
       THEN /\ statusW' = [statusW EXCEPT ![w] = 400]
            /\ pcW' = [pcW EXCEPT ![w] = "done"]
       ELSE /\ statusW' = statusW
            /\ pcW' = [pcW EXCEPT ![w] = "commit"]
    /\ UNCHANGED <<seqVars, payloadW, idW>>

\* Lines 88-92.
create_person_commit(w) ==
    /\ pcW[w] = "commit"
    /\ \E id \in NewIds(store) :
          LET person == Persona(payloadW[w].vals, id)
          IN IF IntegrityError(store, person)
             THEN /\ statusW' = [statusW EXCEPT ![w] = 500]
                  /\ pcW' = [pcW EXCEPT ![w] = "done"]
                  /\ UNCHANGED <<store, idW>>
             ELSE /\ store' = store \cup {person}
                  /\ idW' = [idW EXCEPT ![w] = id]
                  /\ pcW' = [pcW EXCEPT ![w] = "dump"]
                  /\ statusW' = statusW
    /\ UNCHANGED <<today, schemaMax, thread, last, payloadW>>

\* Line 95.
create_person_answer(w) ==
    /\ pcW[w] = "dump"
    /\ statusW' = [statusW EXCEPT ![w] = IF Get(store, idW[w]) = {} THEN 500 ELSE 201]
    /\ pcW' = [pcW EXCEPT ![w] = "done"]
    /\ UNCHANGED <<seqVars, payloadW, idW>>

NextConc ==
    \E w \in Workers :
        \/ create_person_load(w)
        \/ create_person_commit(w)
        \/ create_person_answer(w)

SpecConc == InitConc /\ [][NextConc]_vars

\* ------------------------------------------------------------- properties
\* The step now taken is step name of a handler.
Takes(name) == last'.step = name

\* The step now taken answers its request.
Answers == last'.status # 0

\* The request body is accepted by persona_schema.load.
Loads(payload, partial) == LoadErrors(payload, partial, schemaMax) = <<>>

\* C1: in every reachable state no two stored person records have the same
\* id and no two have the same correo_electronico.
UniqueIdAndEmail ==
    \A r1, r2 \in store :
        (r1.id = r2.id \/ r1.correo_electronico = r2.correo_electronico) => r1 = r2

\* C1 witness: two records are stored and the commit of a PUT that would have
\* given one of them the email of the other has just been refused.
PutOfHeldEmailRefused ==
    /\ last.step = "update_person_commit"
    /\ last.status = 500
    /\ last.message = "IntegrityError"
    /\ Cardinality(store) = 2

\* C2: a POST of a body that loads, with the email of a stored record, is
\* answered with the datastore's conflict error (IntegrityError, status 500),
\* stores nothing, and the record that holds the email is still the one a
\* lookup of its id finds, with every field as before.
CreateWithHeldEmailConflicts ==
    [][(/\ Takes("create_person")
        /\ Loads(last'.payload, FALSE)
        /\ \E r \in store :
              r.correo_electronico = last'.payload.vals.correo_electronico)
       => /\ last'.status = 500
          /\ last'.message = "IntegrityError"
          /\ last'.rows = {}
          /\ store' = store
          /\ \A r \in store :
                r.correo_electronico = last'.payload.vals.correo_electronico
                => Get(store', r.id) = {r}]_vars

\* C2 witness: a POST has just been refused with the conflict error while a
\* record is stored.
CreateConflictHappened ==
    /\ last.step = "create_person"
    /\ last.status = 500
    /\ store # {}

\* C3: the commit of a PUT that goes through on a stored record leaves the
\* record of that id with the payload's value on every key of the payload and
\* with every other column, id included, as before (NULL columns stay NULL);
\* every other record is unchanged.
UpdateOverwritesOnlyPayloadKeys ==
    [][(/\ Takes("update_person_commit")
        /\ ~Answers
        /\ Get(store, last'.id) # {})
       => \E old \in store, new \in store' :
            /\ old.id = last'.id
            /\ new.id = last'.id
            /\ store' \ {new} = store \ {old}
            /\ \A k \in DOMAIN last'.payload.vals :
                  k \in DOMAIN new /\ new[k] = last'.payload.vals[k]
            /\ \A c \in Columns \ DOMAIN last'.payload.vals :
                  /\ c \in DOMAIN new <=> c \in DOMAIN old
                  /\ c \in DOMAIN old => new[c] = old[c]]_vars

\* C4: a PUT of a body that loads, for an id that has no record, is answered
\* 404 with the message "Persona no encontrada" and leaves the table as it
\* was.
UpdateOfMissingIdNotFound ==
    [][(/\ Takes("update_person")
        /\ Loads(last'.payload, TRUE)
        /\ Get(store, last'.id) = {})
       => /\ last'.status = 404
          /\ last'.message = "Persona no encontrada"
          /\ store' = store]_vars

\* C4 witness: a PUT has just been answered 404 while another record is
\* stored.
UpdateNotFoundHappened ==
    /\ last.step = "update_person"
    /\ last.status = 404
    /\ store # {}

\* The steps of C5 that answer a request for one id.
OfOneId ==
    {"get_person_by_id", "update_person", "update_person_commit", "update_person_dump",
     "delete_person", "delete_person_commit"}

\* C5: a DELETE answered 204 has removed exactly the record of its id, and a
\* GET, a PUT or a DELETE answered while its id has no record is answered 404
\* and changes nothing.  (The PUT is taken with a body that loads.)
DeletedIdAlwaysNotFound ==
    [][/\ (Answers /\ last'.status = 204)
          => \E r \in store : r.id = last'.id /\ store' = store \ {r}
       /\ (/\ Answers
           /\ last'.step \in OfOneId
           /\ Loads(last'.payload, TRUE)
           /\ Get(store, last'.id) = {})
          => /\ last'.status = 404
             /\ last'.message = "Persona no encontrada"
             /\ store' = store]_vars

\* A field rule of the data model is violated by the payload on day d: a key
\* the schema does not load, a null, a required key missing from a full
\* payload, or a value outside its rule.
RuleViolated(payload, partial, d) ==
    LET v == payload.vals
        has(f) == f \in DOMAIN v
    IN \/ Keys(payload) \ LoadFields # {}
       \/ payload.nulls # {}
       \/ ~partial /\ RequiredColumns \ DOMAIN v # {}
       \/ has("nombre") /\ (~NombreRegexp(v.nombre) \/ Len(v.nombre) < 3)
       \/ has("categoria") /\ v.categoria \notin {"A", "B", "C", "D", "E", "F"}
       \/ has("edad") /\ (v.edad < 18 \/ v.edad > 50)
       \/ has("correo_electronico") /\ ~IsEmail(v.correo_electronico)
       \/ has("url") /\ ~IsUrl(v.url)
       \/ has("fecha_nacimiento") /\ v.fecha_nacimiento > d

\* C6: a POST or PUT whose payload violates a field rule is answered 400 with
\* a non-empty field -> messages mapping, before any statement that uses the
\* datastore, and the table is as it was; every 400 is of that kind.
ValidationBeforeDatastore ==
    [][/\ ((Takes("create_person") \/ Takes("update_person"))
           /\ RuleViolated(last'.payload, Takes("update_person"), today))
          => /\ last'.status = 400
             /\ DOMAIN last'.messages # {}
             /\ \A f \in DOMAIN last'.messages : last'.messages[f] # <<>>
       /\ last'.status = 400
          => /\ Takes("create_person") \/ Takes("update_person")
             /\ ~last'.queried
             /\ store' = store]_vars

\* C6 witness: a PUT of a categoria that is valid and an edad that is not,
\* for an id that has no record, has just been answered 400 for its edad
\* alone.
InvalidUpdateOfMissingIdRejected ==
    /\ last.step = "update_person"
    /\ last.status = 400
    /\ DOMAIN last.payload.vals = {"categoria", "edad"}
    /\ DOMAIN last.messages = {"edad"}
    /\ store = {}

\* The value of column k of record r equals the text v of a query string.
EqualsText(r, k, v) ==
    /\ k \in DOMAIN r
    /\ CASE k \in IntegerColumns -> r[k] = ToInt(v)
         [] k = "es_activo" -> r[k] = (v = <<"T", "r", "u", "e">>)
         [] OTHER -> r[k] = v

\* C7: GET /persons with a filter over column names answers 200 with exactly
\* the stored records equal to the filter on every key, with the empty filter
\* every stored record, and never changes the table.
ListReturnsExactlyTheMatches ==
    [][Takes("get_all_persons")
       => /\ store' = store
          /\ DOMAIN last'.filter \subseteq Columns
             => /\ last'.status = 200
                /\ last'.message = ""
                /\ last'.rows =
                      {Dump(r) : r \in {x \in store :
                          \A k \in DOMAIN last'.filter : EqualsText(x, k, last'.filter[k])}}
          /\ last'.filter = <<>> => last'.rows = {Dump(r) : r \in store}]_vars

\* The two concurrent creates carry bodies that load, with the same email.
SameEmailCreates ==
    /\ \A w \in Workers : LoadErrors(payloadW[w], FALSE, schemaMax) = <<>>
    /\ \A w1, w2 \in Workers :
          payloadW[w1].vals.correo_electronico = payloadW[w2].vals.correo_electronico

\* C8: when the two concurrent creates carry the same email, at most one
\* record is ever stored, and once both have ended one was answered 201 and
\* stored its record, the other was answered with the conflict error and
\* stored nothing.
ConcurrentCreatesOneWins ==
    SameEmailCreates
    => /\ Cardinality(store) <= 1
       /\ (\A w \in Workers : pcW[w] = "done")
          => /\ \E w1, w2 \in Workers :
                  w1 # w2 /\ statusW[w1] = 201 /\ statusW[w2] = 500 /\ idW[w2] = 0
             /\ \E w \in Workers :
                  statusW[w] = 201 /\ store = {Persona(payloadW[w].vals, idW[w])}

\* C8 witness: two same-email creates with different bodies have both ended.
ConcurrentCreatesEnded ==
    /\ SameEmailCreates
    /\ payloadW[1] # payloadW[2]
    /\ \A w \in Workers : pcW[w] = "done"

\* C9: a fecha_nacimiento in a POST or PUT is refused if and only if it is
\* later than the day on which the request is validated.
FechaComparedWithToday ==
    [][((Takes("create_person") \/ Takes("update_person"))
        /\ "fecha_nacimiento" \in DOMAIN last'.payload.vals)
       => ("fecha_nacimiento" \in DOMAIN last'.messages
           <=> last'.payload.vals.fecha_nacimiento > today)]_vars

\* C10: every stored record has its five required columns, a categoria among
\* A..F, and an edad that is NULL or within 18..50.
StoredRecordsSatisfyRules ==
    \A r \in store :
        /\ {"nombre", "apellido", "categoria", "correo_electronico", "url"}
              \subseteq DOMAIN r
        /\ r.categoria \in {"A", "B", "C", "D", "E", "F"}
        /\ "edad" \in DOMAIN r => (18 <= r.edad /\ r.edad <= 50)

\* C10 witness: the commit of a partial update has just set the edad of a
\* record, and nothing else, to 50.
UpdateToBoundaryAge ==
    /\ last.step = "update_person_commit"
    /\ last.changed = {"edad"}
    /\ \E r \in store : r.id = last.id /\ "edad" \in DOMAIN r /\ r.edad = 50

====
